---- MODULE Spec2Model ----
(***************************************************************************)
(* A model of the DFA description-language parser, validator, serializer   *)
(* and graph builder (src/src/dfa.rs, src/src/graph.rs).                   *)
(*                                                                         *)
(* A text is a sequence of one-character strings; the cursor (the          *)
(* Peekable<CharIndices>) is the index of the next character, Len+1 at     *)
(* end of input.  A word is the sequence of its characters.  A String built*)
(* with format! and += is the sequence of its formatted pieces.            *)
(***************************************************************************)
EXTENDS Integers, Sequences, FiniteSets, TLC

\* ------------------------------------------------------------------------
\* Bounds of the model
\* ------------------------------------------------------------------------
MaxList == 2
MaxTrans == 3

\* ------------------------------------------------------------------------
\* Characters
\* ------------------------------------------------------------------------
Whitespace == {" ", "\n", "\t"}

Alphanumeric ==
  {"a", "b", "c", "d", "e", "f", "g", "h", "i", "j", "k", "l", "m", "n", "o",
   "p", "q", "r", "s", "t", "u", "v", "w", "x", "y", "z",
   "A", "S", "T", "0", "1", "2", "3", "4", "5", "6", "7", "8", "9"}

\* Mutant: only the space character counts as whitespace
M_is_whitespace(c) == c = " "

is_whitespace(c) == c \in Whitespace

is_word_char(c) == c \in Alphanumeric \/ c = "_"

\* ------------------------------------------------------------------------
\* Strings built by format!: a sequence of pieces, each a template and the
\* words substituted into it
\* ------------------------------------------------------------------------
Fmt(text, args) == << [text |-> text, args |-> args] >>

EmptyString == << >>

\* Result<T, String> with the cursor the call leaves behind
Ok(val, pos) == [ok |-> TRUE, val |-> val, err |-> EmptyString, pos |-> pos]

Err(err, pos) == [ok |-> FALSE, val |-> << >>, err |-> err, pos |-> pos]

\* ------------------------------------------------------------------------
\* Reader primitives
\* ------------------------------------------------------------------------
RECURSIVE whitespace(_, _)
whitespace(code, pos) ==
  IF pos <= Len(code) /\ is_whitespace(code[pos])
    THEN whitespace(code, pos + 1)
    ELSE pos

RECURSIVE word_run(_, _)
word_run(code, pos) ==
  IF pos <= Len(code) /\ is_word_char(code[pos])
    THEN word_run(code, pos + 1)
    ELSE pos

word(code, pos) ==
  LET from == whitespace(code, pos)
      to   == word_run(code, from)
  IN  [word |-> SubSeq(code, from, to - 1), pos |-> whitespace(code, to)]

RECURSIVE list_loop(_, _, _)
list_loop(code, pos, acc) ==
  LET item == word(code, pos)
      l    == Append(acc, item.word)
      p    == item.pos
  IN  IF p > Len(code)
        THEN Err(Fmt("Unexpected End of File.", << >>), p)
      ELSE IF code[p] = ","
        THEN list_loop(code, p + 1, l)
      ELSE IF code[p] = "]"
        THEN Ok(l, p + 1)
      ELSE Err(Fmt("Unexpected Symbol '{}' Expected ,", << <<code[p]>> >>), p + 1)

list(code, pos) ==
  LET p == whitespace(code, pos)
  IN  IF p > Len(code)
        THEN Err(Fmt("Unexpected End of File.", << >>), p)
      ELSE IF code[p] = "["
        THEN list_loop(code, p + 1, << >>)
      ELSE Err(Fmt("Unexpected Symbol '{}' Expected [", << <<code[p]>> >>), p + 1)

\* Mutant: a word that merely starts with the keyword is accepted
M_keyword(code, pos, kw) ==
  LET x == word(code, pos)
  IN  IF Len(x.word) >= Len(kw) /\ SubSeq(x.word, 1, Len(kw)) = kw
        THEN Ok(TRUE, x.pos)
        ELSE Err(Fmt("Expected {}", <<kw>>), x.pos)

keyword(code, pos, kw) ==
  LET x == word(code, pos)
  IN  IF x.word = kw
        THEN Ok(TRUE, x.pos)
        ELSE Err(Fmt("Expected {}", <<kw>>), x.pos)

char(code, pos, ch) ==
  LET p == whitespace(code, pos)
  IN  IF p > Len(code)
        THEN Err(Fmt("Unexpected End of file.", << >>), p)
      ELSE IF code[p] = ch
        THEN Ok(TRUE, whitespace(code, p + 1))
      ELSE Err(Fmt("Unexpected Symbol '{}' Expected {}", << <<code[p]>>, <<ch>> >>),
               whitespace(code, p + 1))

\* ------------------------------------------------------------------------
\* Section keywords
\* ------------------------------------------------------------------------
KwStates == <<"s", "t", "a", "t", "e", "s">>

KwAlphabet == <<"a", "l", "p", "h", "a", "b", "e", "t">>

KwStartingState ==
  <<"s", "t", "a", "r", "t", "i", "n", "g", "_", "s", "t", "a", "t", "e">>

KwAcceptingStates ==
  <<"a", "c", "c", "e", "p", "t", "i", "n", "g", "_", "s", "t", "a", "t", "e", "s">>

KwTransitions ==
  <<"t", "r", "a", "n", "s", "i", "t", "i", "o", "n", "s">>

\* ------------------------------------------------------------------------
\* Section parsers
\* ------------------------------------------------------------------------
states(code, pos) ==
  LET k == keyword(code, pos, KwStates)
      c == char(code, k.pos, "=")
  IN  IF ~k.ok THEN k ELSE IF ~c.ok THEN c ELSE list(code, c.pos)

alphabet(code, pos) ==
  LET k == keyword(code, pos, KwAlphabet)
      c == char(code, k.pos, "=")
  IN  IF ~k.ok THEN k ELSE IF ~c.ok THEN c ELSE list(code, c.pos)

starting_state(code, pos) ==
  LET k == keyword(code, pos, KwStartingState)
      c == char(code, k.pos, "=")
      w == word(code, c.pos)
  IN  IF ~k.ok THEN k ELSE IF ~c.ok THEN c ELSE Ok(w.word, w.pos)

accepting_states(code, pos) ==
  LET k == keyword(code, pos, KwAcceptingStates)
      c == char(code, k.pos, "=")
  IN  IF ~k.ok THEN k ELSE IF ~c.ok THEN c ELSE list(code, c.pos)

\* HashMap::new and HashMap::insert: a function on the set of keys
EmptyMap == [k \in {} |-> << >>]

\* Mutant: an existing entry is kept (entry().or_insert)
M_insert(map, key, value) ==
  [k \in DOMAIN map \cup {key} |-> IF k \in DOMAIN map THEN map[k] ELSE value]

insert(map, key, value) ==
  [k \in DOMAIN map \cup {key} |-> IF k = key THEN value ELSE map[k]]

RECURSIVE transitions_loop(_, _, _)
transitions_loop(code, pos, map) ==
  IF pos > Len(code)
    THEN Ok(map, pos)
    ELSE
      LET start_state == word(code, pos)
          p           == start_state.pos
          input       == word(code, p + 1)
          eq          == char(code, input.pos, "=")
          final_state == word(code, eq.pos)
          semi        == char(code, final_state.pos, ";")
      IN  IF p > Len(code)
            THEN Err(Fmt("Unexpected End of File.", << >>), p)
          ELSE IF code[p] = "]"
            THEN Ok(map, p + 1)
          ELSE IF code[p] # ","
            THEN Err(Fmt("Unexpected Symbol '{}' Expected ',' or ']'",
                         << <<code[p]>> >>), p + 1)
          ELSE IF ~eq.ok THEN eq
          ELSE IF ~semi.ok THEN semi
          ELSE transitions_loop(code, whitespace(code, semi.pos),
                 insert(map, <<start_state.word, input.word>>, final_state.word))

transitions(code, pos) ==
  LET k == keyword(code, pos, KwTransitions)
      c == char(code, k.pos, "=")
  IN  IF ~k.ok THEN k ELSE IF ~c.ok THEN c
      ELSE transitions_loop(code, c.pos, EmptyMap)

\* ------------------------------------------------------------------------
\* HashMap iteration: the keys in an order the hasher decides, some
\* permutation of the key set
\* ------------------------------------------------------------------------
iter(map) ==
  LET keys == DOMAIN map
      n    == Cardinality(keys)
  IN  {o \in [1..n -> keys] : \A i, j \in 1..n : i # j => o[i] # o[j]}

contains(vec, x) == \E i \in DOMAIN vec : vec[i] = x

\* ------------------------------------------------------------------------
\* Validation (DFA::try_from after the five fields are parsed)
\* ------------------------------------------------------------------------
RECURSIVE invalid_states(_, _)
invalid_states(dfa, i) ==
  IF i > Len(dfa.accepting_states)
    THEN EmptyString
    ELSE (IF ~contains(dfa.states, dfa.accepting_states[i])
            THEN Fmt("Accepting State {} is not a valid state.\n",
                     <<dfa.accepting_states[i]>>)
            ELSE EmptyString)
         \o invalid_states(dfa, i + 1)

\* Mutant: the destination of a transition is not checked
M_transition_error(dfa, key) ==
  LET start == key[1]
      alpha == key[2]
      end   == dfa.transition[key]
      e1 == IF ~contains(dfa.states, start)
              THEN Fmt("Initial State {},", <<start>>) ELSE EmptyString
      e2 == IF ~contains(dfa.alphabet, alpha)
              THEN Fmt(" alphabet {},", <<alpha>>) ELSE EmptyString
  IN  e1 \o e2 \o
      (IF e1 # EmptyString \/ e2 # EmptyString
         THEN Fmt(" in Transition {},{} -> {} are invalid\n", <<start, alpha, end>>)
         ELSE EmptyString)

transition_error(dfa, key) ==
  LET start == key[1]
      alpha == key[2]
      end   == dfa.transition[key]
      e1 == IF ~contains(dfa.states, start)
              THEN Fmt("Initial State {},", <<start>>) ELSE EmptyString
      e2 == IF ~contains(dfa.alphabet, alpha)
              THEN Fmt(" alphabet {},", <<alpha>>) ELSE EmptyString
      e3 == IF ~contains(dfa.states, end)
              THEN Fmt(" Final state {},", <<end>>) ELSE EmptyString
      error == e1 # EmptyString \/ e2 # EmptyString \/ e3 # EmptyString
  IN  e1 \o e2 \o e3 \o
      (IF error
         THEN Fmt(" in Transition {},{} -> {} are invalid\n", <<start, alpha, end>>)
         ELSE EmptyString)

\* Mutant: the scan stops at the first offending transition
RECURSIVE M_invalid_transitions(_, _, _)
M_invalid_transitions(dfa, order, i) ==
  IF i > Len(order)
    THEN EmptyString
  ELSE IF transition_error(dfa, order[i]) # EmptyString
    THEN transition_error(dfa, order[i])
  ELSE M_invalid_transitions(dfa, order, i + 1)

RECURSIVE invalid_transitions(_, _, _)
invalid_transitions(dfa, order, i) ==
  IF i > Len(order)
    THEN EmptyString
    ELSE transition_error(dfa, order[i]) \o invalid_transitions(dfa, order, i + 1)

\* Mutant: an invalid starting state is reported along with everything else
M_validate(dfa, order) ==
  (IF ~contains(dfa.states, dfa.starting_state)
     THEN Fmt("{} is not a valid State.", <<dfa.starting_state>>)
     ELSE EmptyString)
  \o invalid_states(dfa, 1) \o invalid_transitions(dfa, order, 1)

\* The result of try_from once the fields are parsed: "" stands for Ok(dfa)
validate(dfa, order) ==
  IF ~contains(dfa.states, dfa.starting_state)
    THEN Fmt("{} is not a valid State.", <<dfa.starting_state>>)
  ELSE IF invalid_states(dfa, 1) # EmptyString
    THEN invalid_states(dfa, 1)
  ELSE invalid_transitions(dfa, order, 1)

\* ------------------------------------------------------------------------
\* Serializer (impl Into<String> for DFA)
\* ------------------------------------------------------------------------
RECURSIVE join(_, _)
join(parts, sep) ==
  IF parts = << >> THEN << >>
  ELSE IF Len(parts) = 1 THEN parts[1]
  ELSE parts[1] \o sep \o join(Tail(parts), sep)

\* Mutant: the line's closing ';' is left out
M_transition_line(dfa, key) ==
  <<" ", " ", " ", " ">> \o key[1] \o <<",">> \o key[2] \o <<" ", "=", " ">>
    \o dfa.transition[key]

transition_line(dfa, key) ==
  <<" ", " ", " ", " ">> \o key[1] \o <<",">> \o key[2] \o <<" ", "=", " ">>
    \o dfa.transition[key] \o <<";">>

into(dfa, order) ==
  LET parts ==
        << KwStates \o <<" ", "=", " ", "[">> \o join(dfa.states, <<",", " ">>) \o <<"]">>,
           KwAlphabet \o <<" ", "=", " ", "[">> \o join(dfa.alphabet, <<",", " ">>) \o <<"]">>,
           KwStartingState \o <<" ", "=", " ">> \o dfa.starting_state,
           KwAcceptingStates \o <<" ", "=", " ", "[">>
             \o join(dfa.accepting_states, <<",", " ">>) \o <<"]">>,
           KwTransitions \o <<" ", "=">>,
           join([i \in 1..Len(order) |-> transition_line(dfa, order[i])], <<"\n">>) >>
  IN  join(parts, <<"\n">>)

\* ------------------------------------------------------------------------
\* Graph builder (impl From<DFA> for Graph)
\* ------------------------------------------------------------------------
\* Mutant: the label replaces the edge's labels (insert instead of push)
M_push_label(adj_mat, edge, label) ==
  [e \in DOMAIN adj_mat \cup {edge} |-> IF e = edge THEN <<label>> ELSE adj_mat[e]]

push_label(adj_mat, edge, label) ==
  [e \in DOMAIN adj_mat \cup {edge} |->
     IF e = edge
       THEN Append(IF edge \in DOMAIN adj_mat THEN adj_mat[edge] ELSE << >>, label)
       ELSE adj_mat[e]]

RECURSIVE adj_mat_from(_, _, _, _)
adj_mat_from(dfa, order, i, adj_mat) ==
  IF i > Len(order)
    THEN adj_mat
    ELSE adj_mat_from(dfa, order, i + 1,
           push_label(adj_mat, <<order[i][1], dfa.transition[order[i]]>>, order[i][2]))

from(dfa, order) ==
  [nodes |-> dfa.states, adj_mat |-> adj_mat_from(dfa, order, 1, EmptyMap)]

\* ------------------------------------------------------------------------
\* Documents: the texts try_from is given.  A document is its declared
\* content, the whitespace put between its tokens and at most one fault.
\* ------------------------------------------------------------------------
q1 == <<"q", "1">>

q2 == <<"q", "2">>

q3 == <<"q", "3">>

NoWord == << >>

Keywords ==
  <<KwStates, KwAlphabet, KwStartingState, KwAcceptingStates, KwTransitions>>

WsStyles == {<< >>, <<" ">>, <<"\n", "\t", " ">>}

HeaderFaults == {"extra", "short", "case", "noeq", "missing", "swap"}

TailFaults == {"bracket", "garbage", "partial", "symbol"}

NoFault == [kind |-> "none", at |-> 0]

Faults ==
  {NoFault}
    \cup {[kind |-> k, at |-> i] : k \in HeaderFaults \ {"swap"}, i \in 1..5}
    \cup {[kind |-> "swap", at |-> i] : i \in 1..4}
    \cup {[kind |-> k, at |-> 6] : k \in TailFaults}

ExampleTrans ==
  << <<q1, <<"a">>, q2>>, <<q1, <<"b">>, q1>>,
     <<q2, <<"a">>, q1>>, <<q2, <<"b">>, q2>> >>

ExampleDoc ==
  [states |-> <<q1, q2>>, alphabet |-> << <<"a">>, <<"b">> >>, start |-> q1,
   accept |-> <<q2>>, trans |-> ExampleTrans, ws |-> <<"\n", "\t", " ">>,
   fault |-> NoFault]

TransLines ==
  { <<q1, <<"a">>, q2>>, <<q1, <<"a">>, q1>>, <<q1, <<"b">>, q1>>,
    <<q2, <<"b">>, q2>>, <<q2, <<"b">>, q3>>, <<q3, <<"a">>, q1>>,
    <<q1, <<"c">>, q3>> }

SeqsBetween(S, lo, hi) == UNION {[1..n -> S] : n \in lo..hi}

SyntaxDocs ==
  {[ExampleDoc EXCEPT !.trans = t, !.ws = w, !.fault = f] :
     t \in {ExampleTrans, << >>}, w \in WsStyles, f \in Faults}

ListDocs ==
  {[ExampleDoc EXCEPT !.states = s, !.alphabet = << <<"a">> >>, !.start = q,
                      !.accept = f, !.trans = << <<q1, <<"a">>, q2>> >>,
                      !.ws = <<" ">>] :
     s \in SeqsBetween({q1, q2, NoWord}, 1, MaxList),
     q \in {q1, q2, NoWord},
     f \in SeqsBetween({q1, q2}, 1, MaxList)}

TransDocs ==
  {[ExampleDoc EXCEPT !.trans = t, !.ws = <<" ">>] :
     t \in SeqsBetween(TransLines, 0, MaxTrans)}

Docs == SyntaxDocs \cup ListDocs \cup TransDocs

Upper(c) == IF c = "s" THEN "S" ELSE IF c = "a" THEN "A" ELSE "T"

RenderKeyword(doc, k) ==
  LET kw == Keywords[k]
  IN  IF doc.fault.at # k THEN kw
      ELSE IF doc.fault.kind = "extra" THEN Append(kw, "t")
      ELSE IF doc.fault.kind = "short" THEN SubSeq(kw, 1, Len(kw) - 1)
      ELSE IF doc.fault.kind = "case" THEN <<Upper(kw[1])>> \o Tail(kw)
      ELSE kw

RenderList(l, ws) ==
  <<"[">> \o ws \o join([i \in 1..Len(l) |-> l[i] \o ws], <<",">> \o ws) \o <<"]">>

RenderLine(t, ws) ==
  t[1] \o ws \o <<",">> \o ws \o t[2] \o ws \o <<"=">> \o ws \o t[3] \o ws
    \o <<";">> \o ws

RenderBody(doc, k) ==
  IF k = 1 THEN RenderList(doc.states, doc.ws) \o doc.ws
  ELSE IF k = 2 THEN RenderList(doc.alphabet, doc.ws) \o doc.ws
  ELSE IF k = 3 THEN doc.start \o (IF doc.ws = << >> THEN <<" ">> ELSE doc.ws)
  ELSE IF k = 4 THEN RenderList(doc.accept, doc.ws) \o doc.ws
  ELSE join([i \in 1..Len(doc.trans) |-> RenderLine(doc.trans[i], doc.ws)], << >>)

RenderSection(doc, k) ==
  RenderKeyword(doc, k) \o doc.ws
    \o (IF doc.fault.kind = "noeq" /\ doc.fault.at = k THEN <<",">> ELSE <<"=">>)
    \o doc.ws \o RenderBody(doc, k)

SectionOrder(doc) ==
  IF doc.fault.kind = "missing"
    THEN SelectSeq(<<1, 2, 3, 4, 5>>, LAMBDA k : k # doc.fault.at)
  ELSE IF doc.fault.kind = "swap"
    THEN [k \in 1..5 |-> IF k = doc.fault.at THEN k + 1
                         ELSE IF k = doc.fault.at + 1 THEN k - 1 ELSE k]
  ELSE <<1, 2, 3, 4, 5>>

RenderTail(doc) ==
  IF doc.fault.kind = "bracket" THEN <<"]", " ", "z", "z", ";">>
  ELSE IF doc.fault.kind = "garbage" THEN <<"z", "z">>
  ELSE IF doc.fault.kind = "partial" THEN q1 \o <<",", "a", "=">> \o q2
  ELSE IF doc.fault.kind = "symbol" THEN <<"#">>
  ELSE << >>

Render(doc) ==
  LET order == SectionOrder(doc)
  IN  join([i \in 1..Len(order) |-> RenderSection(doc, order[i])], << >>)
        \o RenderTail(doc)

\* ------------------------------------------------------------------------
\* State
\* ------------------------------------------------------------------------
VARIABLES
  doc,      \* the document the first text was written from
  code,     \* the text being parsed
  pos,      \* the cursor: index of the next character of code
  pc,       \* where try_from stands, or what became of its result
  round,    \* 1: parsing the document; 2: parsing the serializer's output
  dfa,      \* the fields of the DFA parsed so far
  parsed,   \* the sections whose parser returned Ok
  result,   \* the value try_from returned
  orig,     \* the automaton that was serialized
  graph     \* the Graph built from the automaton

vars == <<doc, code, pos, pc, round, dfa, parsed, result, orig, graph>>

NoDfa ==
  [states |-> << >>, alphabet |-> << >>, starting_state |-> << >>,
   accepting_states |-> << >>, transition |-> EmptyMap]

NoResult == [status |-> "none", err |-> EmptyString]

NoGraph == [nodes |-> << >>, adj_mat |-> EmptyMap]

Init ==
  /\ doc \in Docs
  /\ code = Render(doc)
  /\ pos = 1
  /\ pc = "states"
  /\ round = 1
  /\ dfa = NoDfa
  /\ parsed = {}
  /\ result = NoResult
  /\ orig = NoDfa
  /\ graph = NoGraph

\* One field initializer of the DFA struct literal: r is what the section
\* parser returned; `?` returns its error from try_from
Field(r, k, next, newdfa) ==
  /\ pos' = r.pos
  /\ IF r.ok
       THEN /\ dfa' = newdfa
            /\ parsed' = parsed \cup {k}
            /\ pc' = next
            /\ result' = result
       ELSE /\ dfa' = dfa
            /\ parsed' = parsed
            /\ pc' = "Err"
            /\ result' = [status |-> "Err", err |-> r.err]
  /\ UNCHANGED <<doc, code, round, orig, graph>>

ParseStates ==
  /\ pc = "states"
  /\ LET r == states(code, pos)
     IN  Field(r, 1, "alphabet", [dfa EXCEPT !.states = r.val])

ParseAlphabet ==
  /\ pc = "alphabet"
  /\ LET r == alphabet(code, pos)
     IN  Field(r, 2, "starting_state", [dfa EXCEPT !.alphabet = r.val])

ParseStartingState ==
  /\ pc = "starting_state"
  /\ LET r == starting_state(code, pos)
     IN  Field(r, 3, "accepting_states", [dfa EXCEPT !.starting_state = r.val])

ParseAcceptingStates ==
  /\ pc = "accepting_states"
  /\ LET r == accepting_states(code, pos)
     IN  Field(r, 4, "transitions", [dfa EXCEPT !.accepting_states = r.val])

ParseTransitions ==
  /\ pc = "transitions"
  /\ LET r == transitions(code, pos)
     IN  Field(r, 5, "validate", [dfa EXCEPT !.transition = r.val])

Validate ==
  /\ pc = "validate"
  /\ \E order \in iter(dfa.transition) :
       LET err == validate(dfa, order)
       IN  /\ result' = IF err = EmptyString
                          THEN [status |-> "Ok", err |-> EmptyString]
                          ELSE [status |-> "Err", err |-> err]
           /\ pc' = IF err = EmptyString THEN "Ok" ELSE "Err"
  /\ UNCHANGED <<doc, code, pos, round, dfa, parsed, orig, graph>>

\* String::from(dfa), and the text handed to try_from again
Into ==
  /\ pc = "Ok"
  /\ round = 1
  /\ \E order \in iter(dfa.transition) : code' = into(dfa, order)
  /\ pos' = 1
  /\ pc' = "states"
  /\ round' = 2
  /\ orig' = dfa
  /\ dfa' = NoDfa
  /\ parsed' = {}
  /\ result' = NoResult
  /\ UNCHANGED <<doc, graph>>

GraphFrom ==
  /\ pc = "Ok"
  /\ \E order \in iter(dfa.transition) : graph' = from(dfa, order)
  /\ pc' = "Graph"
  /\ UNCHANGED <<doc, code, pos, round, dfa, parsed, result, orig>>

Next ==
  \/ ParseStates
  \/ ParseAlphabet
  \/ ParseStartingState
  \/ ParseAcceptingStates
  \/ ParseTransitions
  \/ Validate
  \/ Into
  \/ GraphFrom

Spec == Init /\ [][Next]_vars

\* ------------------------------------------------------------------------
\* What a document declares, for stating the properties
\* ------------------------------------------------------------------------
Elems(vec) == {vec[i] : i \in DOMAIN vec}

ParsePcs ==
  <<"states", "alphabet", "starting_state", "accepting_states", "transitions">>

Parsing == pc \in Elems(ParsePcs)

KeyOf(t) == <<t[1], t[2]>>

DeclaredKeys(d) == {KeyOf(d.trans[i]) : i \in DOMAIN d.trans}

\* The last line of the document that declares the pair key
LastLine(d, key) ==
  CHOOSE i \in DOMAIN d.trans :
    /\ KeyOf(d.trans[i]) = key
    /\ \A j \in DOMAIN d.trans : KeyOf(d.trans[j]) = key => j <= i

Triples(map) == {<<k[1], k[2], map[k]>> : k \in DOMAIN map}

WellFormed == round = 1 /\ doc.fault.kind = "none"

\* (C1) Whenever try_from returns Ok, all five sections were parsed and the
\* automaton satisfies the three referential-integrity invariants: the
\* starting state is a declared state, every accepting state is a declared
\* state, and every transition goes from a declared state on a declared
\* symbol to a declared state.
C1_ReferentialIntegrity ==
  result.status = "Ok" =>
    /\ parsed = 1..5
    /\ dfa.starting_state \in Elems(dfa.states)
    /\ Elems(dfa.accepting_states) \subseteq Elems(dfa.states)
    /\ \A t \in Triples(dfa.transition) :
         /\ t[1] \in Elems(dfa.states)
         /\ t[2] \in Elems(dfa.alphabet)
         /\ t[3] \in Elems(dfa.states)

C1_Witness ==
  /\ result.status = "Ok"
  /\ round = 1
  /\ Cardinality(DOMAIN dfa.transition) >= 2
  /\ Len(doc.trans) > Cardinality(DOMAIN dfa.transition)

\* (C2, as stated) For every document that follows the grammar, all five
\* section parsers succeed, the parsed lists and the starting state equal
\* the declared words in declaration order, and the transition map contains
\* every declared transition line (and is empty when none is declared).
C2_Original ==
  (WellFormed /\ ~Parsing) =>
    /\ parsed = 1..5
    /\ dfa.states = doc.states
    /\ dfa.alphabet = doc.alphabet
    /\ dfa.starting_state = doc.start
    /\ dfa.accepting_states = doc.accept
    /\ \A i \in DOMAIN doc.trans :
         /\ KeyOf(doc.trans[i]) \in DOMAIN dfa.transition
         /\ dfa.transition[KeyOf(doc.trans[i])] = doc.trans[i][3]
    /\ doc.trans = << >> => DOMAIN dfa.transition = {}

\* (C2, amended) For every document that follows the grammar and declares a
\* non-empty starting-state word, all five section parsers succeed, the
\* parsed lists and the starting state equal the declared words in
\* declaration order, and the transition map holds exactly the declared
\* (source, symbol) pairs, each with the destination of the last line that
\* declares it (an empty map when no line is declared).
C2_ParseMatchesDeclaration ==
  (WellFormed /\ ~Parsing /\ doc.start # NoWord) =>
    /\ parsed = 1..5
    /\ dfa.states = doc.states
    /\ dfa.alphabet = doc.alphabet
    /\ dfa.starting_state = doc.start
    /\ dfa.accepting_states = doc.accept
    /\ DOMAIN dfa.transition = DeclaredKeys(doc)
    /\ \A key \in DeclaredKeys(doc) :
         dfa.transition[key] = doc.trans[LastLine(doc, key)][3]

C2_Witness ==
  /\ WellFormed
  /\ pc = "validate"
  /\ doc.ws = <<"\n", "\t", " ">>
  /\ Len(doc.states) = 2
  /\ Cardinality(DOMAIN dfa.transition) = 4

\* The error a malformed header of section k must produce
HeaderError(d) ==
  IF d.fault.kind = "noeq"
    THEN Fmt("Unexpected Symbol '{}' Expected {}", << <<",">>, <<"=">> >>)
    ELSE Fmt("Expected {}", <<Keywords[d.fault.at]>>)

FieldsFrom(k) ==
  <<IF k <= 1 THEN dfa.states ELSE << >>,
    IF k <= 2 THEN dfa.alphabet ELSE << >>,
    IF k <= 3 THEN dfa.starting_state ELSE << >>,
    IF k <= 4 THEN dfa.accepting_states ELSE << >>,
    IF k <= 5 THEN DOMAIN dfa.transition ELSE {}>>

\* (C3) Sections are parsed in the fixed order, and parsing fails at the
\* first malformed section header: a wrong word where keyword kw is expected
\* (misspelt, wrong case, section missing or out of order) gives the error
\* "Expected kw"; a matching keyword followed by a character x other than
\* '=' gives "Unexpected Symbol 'x' Expected =".  The sections before it
\* were parsed, no later section is parsed and no automaton is produced.
C3_HeaderErrors ==
  (round = 1 /\ doc.fault.kind \in HeaderFaults) =>
    /\ parsed \subseteq 1..(doc.fault.at - 1)
    /\ pc \in {ParsePcs[k] : k \in 1..doc.fault.at} \cup {"Err"}
    /\ Parsing => parsed = 1..(CHOOSE k \in 1..5 : ParsePcs[k] = pc) - 1
    /\ pc = "Err" =>
         /\ result = [status |-> "Err", err |-> HeaderError(doc)]
         /\ parsed = 1..(doc.fault.at - 1)
         /\ FieldsFrom(doc.fault.at) = <<<< >>, << >>, << >>, << >>, {}>>

C3_Witness ==
  /\ round = 1
  /\ pc = "Err"
  /\ doc.fault = [kind |-> "extra", at |-> 2]
  /\ parsed = {1}

\* (C4) When the document parses and its starting state is not a declared
\* state, try_from returns exactly one message, naming that starting state,
\* whatever accepting states or transitions are invalid as well.
C4_StartStateFailsFast ==
  (parsed = 1..5 /\ pc # "validate"
     /\ dfa.starting_state \notin Elems(dfa.states)) =>
    result = [status |-> "Err",
              err |-> <<[text |-> "{} is not a valid State.",
                         args |-> <<dfa.starting_state>>]>>]

C4_Witness ==
  /\ parsed = 1..5
  /\ pc = "Err"
  /\ dfa.starting_state \notin Elems(dfa.states)
  /\ \E x \in Elems(dfa.accepting_states) : x \notin Elems(dfa.states)
  /\ \E t \in Triples(dfa.transition) : t[3] \notin Elems(dfa.states)

\* The transitions the validator scans: the entries of the parsed map
Undeclared(t) ==
  \/ t[1] \notin Elems(dfa.states)
  \/ t[2] \notin Elems(dfa.alphabet)
  \/ t[3] \notin Elems(dfa.states)

\* The report line for one offending transition: the components that are
\* undeclared, in the order source, symbol, destination, and the transition
ReportLine(t) ==
  (IF t[1] \notin Elems(dfa.states)
     THEN <<[text |-> "Initial State {},", args |-> <<t[1]>>]>> ELSE << >>)
  \o (IF t[2] \notin Elems(dfa.alphabet)
        THEN <<[text |-> " alphabet {},", args |-> <<t[2]>>]>> ELSE << >>)
  \o (IF t[3] \notin Elems(dfa.states)
        THEN <<[text |-> " Final state {},", args |-> <<t[3]>>]>> ELSE << >>)
  \o <<[text |-> " in Transition {},{} -> {} are invalid\n", args |-> t]>>

RECURSIVE Concat(_)
Concat(lines) == IF lines = << >> THEN << >> ELSE Head(lines) \o Concat(Tail(lines))

Arrangements(S) ==
  {o \in [1..Cardinality(S) -> S] : \A i, j \in DOMAIN o : i # j => o[i] # o[j]}

ReachedTransitionsCheck ==
  /\ parsed = 1..5
  /\ pc # "validate"
  /\ dfa.starting_state \in Elems(dfa.states)
  /\ Elems(dfa.accepting_states) \subseteq Elems(dfa.states)

ReportLines ==
  {i \in DOMAIN result.err :
     result.err[i].text = " in Transition {},{} -> {} are invalid\n"}

\* (C5, as stated) When the start-state and accepting-states checks pass,
\* the error report holds exactly one line per declared transition line
\* that references an undeclared source, symbol or destination, also when
\* lines re-declare the same (source, symbol) pair.
C5_Original ==
  (ReachedTransitionsCheck /\ WellFormed) =>
    Cardinality(ReportLines)
      = Cardinality({i \in DOMAIN doc.trans : Undeclared(doc.trans[i])})

\* (C5, amended) When the start-state and accepting-states checks pass, the
\* error report holds exactly one line per offending entry of the parsed
\* transition map (one per (source, symbol) pair, judged on its last
\* declared destination), in some order; each line names exactly the
\* undeclared ones among source, symbol and destination, and the full
\* transition; entries with all three declared contribute nothing, and
\* try_from returns Ok exactly when no entry offends.
C5_OneLinePerOffendingEntry ==
  ReachedTransitionsCheck =>
    LET bad == {t \in Triples(dfa.transition) : Undeclared(t)}
    IN  /\ \E o \in Arrangements(bad) :
             result.err = Concat([i \in DOMAIN o |-> ReportLine(o[i])])
        /\ result.status = IF bad = {} THEN "Ok" ELSE "Err"

C5_Witness ==
  /\ ReachedTransitionsCheck
  /\ round = 1
  /\ pc = "Err"
  /\ Cardinality(ReportLines) = 2
  /\ Cardinality(DOMAIN dfa.transition) = 3
  /\ \E t \in Triples(dfa.transition) :
       t[1] \in Elems(dfa.states) /\ t[2] \notin Elems(dfa.alphabet)
         /\ t[3] \notin Elems(dfa.states)

\* (C6) When several lines declare the same (source, symbol) pair, the
\* transitions section still parses, the map holds exactly one entry for
\* that pair, its destination is that of the last such line, and the
\* entries of the other pairs are the ones their own lines declare.
C6_LastDeclarationWins ==
  (WellFormed /\ 1..4 \subseteq parsed /\ pc # "transitions") =>
    \A i \in DOMAIN doc.trans :
      LET key   == KeyOf(doc.trans[i])
          later == {j \in DOMAIN doc.trans : j > i /\ KeyOf(doc.trans[j]) = key}
      IN  /\ 5 \in parsed
          /\ Cardinality({k \in DOMAIN dfa.transition : k = key}) = 1
          /\ later = {} => dfa.transition[key] = doc.trans[i][3]
          /\ Cardinality(DOMAIN dfa.transition)
               = Cardinality({KeyOf(doc.trans[j]) : j \in DOMAIN doc.trans})

C6_Witness ==
  /\ WellFormed
  /\ pc = "validate"
  /\ Len(doc.trans) = 3
  /\ KeyOf(doc.trans[1]) = KeyOf(doc.trans[3])
  /\ KeyOf(doc.trans[2]) # KeyOf(doc.trans[1])
  /\ doc.trans[1][3] # doc.trans[3][3]
  /\ dfa.transition[KeyOf(doc.trans[1])] = doc.trans[3][3]

\* (C7) End of input is the only terminator of the transitions section:
\* whenever the transitions section parses, the cursor is at end of input,
\* and a document with text after its last transition line that is not a
\* well-formed transition line is rejected with a syntax error.
C7_EndOfInputOnly ==
  /\ 5 \in parsed => pos = Len(code) + 1
  /\ (round = 1 /\ doc.fault.kind \in TailFaults) =>
       /\ 5 \notin parsed
       /\ ~Parsing => result.status = "Err"

\* (C8) Serializing an automaton and parsing the text again succeeds and
\* yields the same set of (source, symbol, destination) triples, whatever
\* order the transition lines were written in.
C8_RoundTrip ==
  round = 2 =>
    /\ pc # "Err"
    /\ result.status = "Ok" => Triples(dfa.transition) = Triples(orig.transition)

C8_Witness ==
  /\ round = 2
  /\ result.status = "Ok"
  /\ Cardinality(Triples(orig.transition)) = 3
  /\ \E k \in DOMAIN orig.transition : k[1] # orig.starting_state

ExampleGraph ==
  [nodes |-> <<q1, q2>>,
   adj_mat |-> [e \in {<<q1, q2>>, <<q1, q1>>, <<q2, q1>>, <<q2, q2>>} |->
                  IF e[1] = e[2] THEN << <<"b">> >> ELSE << <<"a">> >>]]

\* (C9) The graph's nodes are the automaton's states in order; it has an
\* edge (s, d) exactly when some transition (s, a) -> d exists; the labels
\* of (s, d) are exactly the symbols a with (s, a) -> d, each once, so the
\* labels of all edges number as many as the transitions and a (source,
\* symbol) lies under one destination only; the example document yields
\* nodes [q1, q2] and edges (q1,q2)->[a], (q1,q1)->[b], (q2,q1)->[a],
\* (q2,q2)->[b].
C9_GraphProjection ==
  pc = "Graph" =>
    LET t == dfa.transition
        g == graph.adj_mat
        RECURSIVE Total(_)
        Total(E) == IF E = {} THEN 0
                    ELSE LET e == CHOOSE x \in E : TRUE
                         IN  Len(g[e]) + Total(E \ {e})
    IN  /\ graph.nodes = dfa.states
        /\ DOMAIN g = {<<k[1], t[k]>> : k \in DOMAIN t}
        /\ \A e \in DOMAIN g :
             /\ Elems(g[e]) = {k[2] : k \in {x \in DOMAIN t : x[1] = e[1] /\ t[x] = e[2]}}
             /\ Cardinality(Elems(g[e])) = Len(g[e])
        /\ Total(DOMAIN g) = Cardinality(DOMAIN t)
        /\ \A e, f \in DOMAIN g :
             (e[1] = f[1] /\ Elems(g[e]) \cap Elems(g[f]) # {}) => e = f
        /\ (round = 1 /\ doc = ExampleDoc) => graph = ExampleGraph

C9_Witness ==
  /\ pc = "Graph"
  /\ Cardinality(DOMAIN dfa.transition) = 3
  /\ \E e \in DOMAIN graph.adj_mat : Len(graph.adj_mat[e]) = 2

\* (C10) The labels of every edge are in transition-declaration order: of
\* two transitions with the same endpoints, the symbol declared first comes
\* first in the edge's label sequence, in every execution.
C10_DeclarationOrder ==
  (pc = "Graph" /\ WellFormed) =>
    \A e \in DOMAIN graph.adj_mat :
      \A i, j \in DOMAIN graph.adj_mat[e] :
        i < j => LastLine(doc, <<e[1], graph.adj_mat[e][i]>>)
                   < LastLine(doc, <<e[1], graph.adj_mat[e][j]>>)

====
